---- MODULE Spec2Model ----
(***************************************************************************)
(* Model of the DX-cluster ingestion engine, src/dxcluster.py:             *)
(* the network task (main -> login -> read_stream), the line parsers       *)
(* (parse_spot, parse_wwv, DXCC.lookup, get_band), the WriteQueue          *)
(* (queue.Queue) and the PersistenceWorker (DBInsert.run).                 *)
(*                                                                         *)
(* Text is modelled as a sequence of one-character strings, a frequency in *)
(* tenths of a kHz, a band in hundredths of a metre, time in seconds.      *)
(***************************************************************************)
EXTENDS Integers, Sequences, FiniteSets, TLC

(***************************************************************************)
(* Bounds of the model                                                     *)
(***************************************************************************)
\* connection attempts made by main's cycle before the model stops
MaxAttempts == 1
\* the same, where only the cycle and login are followed (CycleSpec)
MaxCycle == 3
\* items read_stream may put on the queue in one run of the model
MaxPuts == 2
\* largest configured queue_len tried (0 means unbounded, see Queue)
MaxQueueLen == 1
\* telnet.expect calls of read_stream in one run of the model
MaxReads == 3

\* the longest callsign lookup is called with on its own
MaxCallLen == 3

\* get_band is called on its own with the frequencies at most this far, in
\* tenths of a kHz, from an edge of a range of its table
FreqMargin == 1

(***************************************************************************)
(* Text helpers                                                            *)
(***************************************************************************)
\* the characters used by the model, in ASCII order
Ascii ==
  << " ", "#", "+", ",", "-", ".", "/", "0", "1", "2", "3", "4", "5", "6",
     "7", "8", "9", ":", "<", "=", ">", "A", "B", "C", "D", "E", "F", "H",
     "I", "K", "L", "M", "N", "O", "P", "Q", "R", "S", "T", "U", "V", "W",
     "X", "Y", "Z", "a", "d", "e", "h", "l", "m", "n", "o", "r", "s", "t",
     "w", "x" >>

Ord(c) == CHOOSE i \in 1..Len(Ascii) : Ascii[i] = c

Digits == {"0", "1", "2", "3", "4", "5", "6", "7", "8", "9"}

DigitVal(c) == Ord(c) - Ord("0")

\* the characters str.rstrip() and the regex class \s take for white space
White == {" ", "\t", "\r", "\n"}

Min(a, b) == IF a < b THEN a ELSE b

IsPrefix(s, t) == Len(s) <= Len(t) /\ SubSeq(t, 1, Len(s)) = s

\* str < str of Python: lexicographic on code points
LexLess(a, b) ==
  \E k \in 0..Min(Len(a), Len(b)) :
    /\ \A i \in 1..k : a[i] = b[i]
    /\ \/ k = Len(a) /\ k < Len(b)
       \/ k < Len(a) /\ k < Len(b) /\ Ord(a[k + 1]) < Ord(b[k + 1])

\* str.upper() on the model's characters
LowerCase == << "a", "d", "e", "h", "l", "m", "n", "o", "r", "s", "t", "w", "x" >>
UpperCase == << "A", "D", "E", "H", "L", "M", "N", "O", "R", "S", "T", "W", "X" >>

UpperChar(c) ==
  IF \E i \in 1..Len(LowerCase) : LowerCase[i] = c
  THEN UpperCase[CHOOSE i \in 1..Len(LowerCase) : LowerCase[i] = c]
  ELSE c

Upper(s) == [i \in 1..Len(s) |-> UpperChar(s[i])]

\* str.strip(chars)
RECURSIVE LStrip(_, _)
LStrip(s, chars) ==
  IF s # <<>> /\ Head(s) \in chars THEN LStrip(Tail(s), chars) ELSE s

RECURSIVE RStrip(_, _)
RStrip(s, chars) ==
  IF s # <<>> /\ s[Len(s)] \in chars
  THEN RStrip(SubSeq(s, 1, Len(s) - 1), chars)
  ELSE s

\* a variant that leaves the text as it is
StripNothing(s, chars) == s

Strip(s, chars) == RStrip(LStrip(s, chars), chars)

\* str.split(sep, 1): at most one split, at the first sep
Split1(s, sep) ==
  IF \E i \in 1..Len(s) : s[i] = sep
  THEN LET i == CHOOSE j \in 1..Len(s) :
                  s[j] = sep /\ \A k \in 1..(j - 1) : s[k] # sep
       IN << SubSeq(s, 1, i - 1), SubSeq(s, i + 1, Len(s)) >>
  ELSE << s >>

\* ' '.join(tokens)
RECURSIVE Join(_)
Join(toks) ==
  IF toks = <<>> THEN <<>>
  ELSE IF Len(toks) = 1 THEN toks[1]
  ELSE toks[1] \o <<" ">> \o Join(Tail(toks))

\* Python's None, where the model holds text
PyNone == << "None" >>

\* bytes.decode('UTF-8', 'replace'): a byte that is no UTF-8 becomes U+FFFD
DecodeChar(b) == IF b = "\\x80" THEN "U+FFFD" ELSE b

Decode(bytes) == [i \in 1..Len(bytes) |-> DecodeChar(bytes[i])]

\* re.compile(r'[:\s]+').split: the pieces between runs of ':' and white
\* space; a separator at either end leaves an empty piece there
RECURSIVE SplitFrom(_, _, _, _)
SplitFrom(s, i, cur, inSep) ==
  IF i > Len(s) THEN << cur >>
  ELSE IF s[i] \in White \cup {":"}
       THEN IF inSep THEN SplitFrom(s, i + 1, cur, TRUE)
            ELSE << cur >> \o SplitFrom(s, i + 1, <<>>, TRUE)
       ELSE SplitFrom(s, i + 1, Append(cur, s[i]), FALSE)

splitter(s) == SplitFrom(s, 1, <<>>, FALSE)

\* the longest run of digits at the head of s (regex \d+, greedy)
RECURSIVE DigitRun(_)
DigitRun(s) ==
  IF s # <<>> /\ Head(s) \in Digits THEN << Head(s) >> \o DigitRun(Tail(s))
  ELSE <<>>

\* int() of a string of digits
RECURSIVE IntOf(_)
IntOf(s) ==
  IF s = <<>> THEN 0
  ELSE 10 * IntOf(SubSeq(s, 1, Len(s) - 1)) + DigitVal(s[Len(s)])

(***************************************************************************)
(* float(): the model's tokens are plain decimals or no numbers at all     *)
(* (no sign, exponent, inf, nan or underscore), so float() accepts a token *)
(* exactly when it is digits with at most one point and one digit at       *)
(* least. A frequency is held in tenths of a kHz.                          *)
(***************************************************************************)
IsFloat(tok) ==
  /\ \A i \in 1..Len(tok) : tok[i] \in Digits \cup {"."}
  /\ Cardinality({i \in 1..Len(tok) : tok[i] = "."}) <= 1
  /\ \E i \in 1..Len(tok) : tok[i] \in Digits

FloatTenths(tok) ==
  LET whole == DigitRun(tok)
      rest == SubSeq(tok, Len(whole) + 1, Len(tok))
      frac == IF rest # <<>> /\ Head(rest) = "." THEN DigitRun(Tail(rest))
              ELSE <<>>
  IN 10 * IntOf(whole) + (IF frac = <<>> THEN 0 ELSE DigitVal(frac[1]))

(***************************************************************************)
(* DXCC: the prefix table and its lookup                                   *)
(***************************************************************************)
\* keys of DXCC._map: a small table with a prefix and two longer ones
\* under it
DXCCPrefixes == { << "K" >>, << "W" >>, << "W", "1" >>, << "W", "1", "K" >> }

\* DXCC._map[prefix]: the DXCCRecord fields parse_spot reads
DXCCMap(p) ==
  CASE p = << "K" >> ->
         [prefix |-> p, continent |-> "NA", cqzone |-> 5, ituzone |-> 8]
    [] p = << "W" >> ->
         [prefix |-> p, continent |-> "NA", cqzone |-> 4, ituzone |-> 7]
    [] p = << "W", "1" >> ->
         [prefix |-> p, continent |-> "NA", cqzone |-> 5, ituzone |-> 8]
    [] p = << "W", "1", "K" >> ->
         [prefix |-> p, continent |-> "NA", cqzone |-> 3, ituzone |-> 6]

\* self.max_len = max(len(v) for v in self._map)
max_len ==
  CHOOSE n \in {Len(p) : p \in DXCCPrefixes} :
    \A p \in DXCCPrefixes : Len(p) <= n

\* a variant of lookup that takes the leading substrings in ascending order
lookupAscending(call) ==
  LET c == Upper(call)
      prefixes == {SubSeq(c, 1, Min(k, Len(c))) : k \in 1..max_len}
      hits == {p \in prefixes : p \in DXCCPrefixes}
  IN IF hits = {}
     THEN [exc |-> "KeyError"]
     ELSE [exc |-> "none",
           rec |-> DXCCMap(CHOOSE p \in hits :
                             \A q \in hits : q = p \/ LexLess(p, q))]

\* a variant of lookup that returns an empty string when no key is found
lookupEmptyOnMiss(call) ==
  LET c == Upper(call)
      prefixes == {SubSeq(c, 1, Min(k, Len(c))) : k \in 1..max_len}
      hits == {p \in prefixes : p \in DXCCPrefixes}
  IN IF hits = {}
     THEN [exc |-> "none", rec |-> <<>>]
     ELSE [exc |-> "none",
           rec |-> DXCCMap(CHOOSE p \in hits :
                             \A q \in hits : q = p \/ LexLess(q, p))]

\* DXCC.lookup: the first of the leading substrings, taken in descending
\* string order, that is a key of the map; KeyError when none is
lookup(call) ==
  LET c == Upper(call)
      prefixes == {SubSeq(c, 1, Min(k, Len(c))) : k \in 1..max_len}
      hits == {p \in prefixes : p \in DXCCPrefixes}
  IN IF hits = {}
     THEN [exc |-> "KeyError"]
     ELSE [exc |-> "none",
           rec |-> DXCCMap(CHOOSE p \in hits :
                             \A q \in hits : q = p \/ LexLess(q, p))]

(***************************************************************************)
(* get_band: kHz to band. The frequency is in tenths of a kHz and the band *)
(* in hundredths of a metre (the table holds 0.70, 1.25, 0.23 and 0.02).   *)
(***************************************************************************)
_bands ==
  << << 14000, 14350, 2000 >>,
     << 7000, 7300, 4000 >>,
     << 10100, 10150, 3000 >>,
     << 3500, 4000, 8000 >>,
     << 21000, 21450, 1500 >>,
     << 18068, 18168, 1700 >>,
     << 28000, 29700, 1000 >>,
     << 50000, 54000, 600 >>,
     << 24890, 24990, 1200 >>,
     << 1800, 2000, 16000 >>,
     << 144000, 148000, 200 >>,
     << 69900, 70500, 400 >>,
     << 5258, 5450, 6000 >>,
     << 420000, 450000, 70 >>,
     << 219000, 225000, 125 >>,
     << 1240000, 1300000, 23 >>,
     << 10000000, 10500000, 2 >>,
     << 472, 479, 63000 >> >>

get_band(freq) ==
  LET hits == {i \in 1..Len(_bands) :
                 10 * _bands[i][1] <= freq /\ freq <= 10 * _bands[i][2]}
  IN IF hits = {} THEN 0
     ELSE _bands[CHOOSE i \in hits : \A j \in hits : i <= j][3]

(***************************************************************************)
(* parse_spot                                                              *)
(***************************************************************************)
\* the mode alternatives of parse_spot.msgparse, FT[48]|CW|RTTY
MsgModes ==
  << << "F", "T", "4" >>, << "F", "T", "8" >>, << "C", "W" >>,
     << "R", "T", "T", "Y" >> >>

\* parse_spot.msgparse: ^(?P<mode>FT[48]|CW|RTTY)\s+(?P<db>[+-]?\ ?\d+).*
msgparse(msg) ==
  LET ms == {i \in 1..Len(MsgModes) : IsPrefix(MsgModes[i], msg)}
  IN IF ms = {} THEN [match |-> FALSE]
     ELSE
       LET mode == MsgModes[CHOOSE i \in ms : \A j \in ms : i <= j]
           after == SubSeq(msg, Len(mode) + 1, Len(msg))
           sp == LStrip(after, White)
           sign == IF sp # <<>> /\ Head(sp) \in {"+", "-"}
                   THEN << Head(sp) >> ELSE <<>>
           a1 == SubSeq(sp, Len(sign) + 1, Len(sp))
           blank == IF a1 # <<>> /\ Head(a1) = " " THEN << " " >> ELSE <<>>
           digits == DigitRun(SubSeq(a1, Len(blank) + 1, Len(a1)))
       IN IF after # <<>> /\ Head(after) \in White /\ digits # <<>>
          THEN [match |-> TRUE, mode |-> mode, db |-> sign \o blank \o digits]
          ELSE [match |-> FALSE]

\* a variant of the loop below in which a call no part of which resolves
\* gets an empty entity instead of ending the parse
ResolveCallDefault(field) ==
  LET parts == Split1(field, "/")
      ok == {i \in 1..Len(parts) : lookup(parts[i]).exc = "none"}
  IN IF ok = {}
     THEN [exc |-> "none",
           rec |-> [prefix |-> <<>>, continent |-> "", cqzone |-> 0,
                    ituzone |-> 0]]
     ELSE lookup(parts[CHOOSE i \in ok : \A j \in ok : i <= j])

\* the loop over fields[i].split('/', 1): the first part lookup resolves
ResolveCall(field) ==
  LET parts == Split1(field, "/")
      ok == {i \in 1..Len(parts) : lookup(parts[i]).exc = "none"}
  IN IF ok = {} THEN [exc |-> "KeyError"]
     ELSE lookup(parts[CHOOSE i \in ok : \A j \in ok : i <= j])

\* Record.__new__ on the twelve fields parse_spot built: band appended,
\* then the UTC time of the call
Record(f, call_de, call_to, mode, db_signal, utcnow) ==
  [DE |-> f[1], FREQUENCY |-> f[2], DX |-> f[3], MESSAGE |-> f[4],
   DE_CONT |-> call_de.continent, TO_CONT |-> call_to.continent,
   DE_ITUZONE |-> call_de.ituzone, TO_ITUZONE |-> call_to.ituzone,
   DE_CQZONE |-> call_de.cqzone, TO_CQZONE |-> call_to.cqzone,
   MODE |-> mode, SIGNAL |-> db_signal,
   BAND |-> get_band(f[2]), DX_TIME |-> utcnow]

\* parse_spot(line) at time utcnow: a Record, None (line logged and
\* skipped), or an exception that leaves the function
parse_spot(buffer, utcnow) ==
  LET line == RStrip(Decode(buffer), White)
      all == splitter(line)
      elem == SubSeq(all, 3, Len(all))
  IN IF Len(elem) < 2
     THEN [ret |-> "raise", exc |-> "IndexError", stage |-> "parse_spot"]
     ELSE IF ~IsFloat(elem[2]) THEN [ret |-> "None", warn |-> "ValueError"]
     ELSE IF Len(elem) < 3
     THEN [ret |-> "raise", exc |-> "IndexError", stage |-> "parse_spot"]
     ELSE
       LET fields == << Strip(elem[1], {"-", "#"}), FloatTenths(elem[2]),
                        elem[3], Join(SubSeq(elem, 4, Len(elem) - 1)) >>
           call_de == ResolveCall(fields[1])
           call_to == ResolveCall(fields[3])
           match == msgparse(fields[4])
       IN IF call_de.exc # "none" THEN [ret |-> "None", warn |-> "DE"]
          ELSE IF call_to.exc # "none" THEN [ret |-> "None", warn |-> "DX"]
          ELSE [ret |-> "Record",
                rec |-> Record(fields, call_de.rec, call_to.rec,
                               IF match.match THEN match.mode ELSE PyNone,
                               IF match.match THEN match.db ELSE PyNone,
                               utcnow)]

(***************************************************************************)
(* parse_wwv                                                               *)
(***************************************************************************)
\* the literal lit stands in s at position p
Lit(s, p, lit) ==
  p + Len(lit) - 1 <= Len(s) /\ SubSeq(s, p, p + Len(lit) - 1) = lit

DigitsAt(s, p) == DigitRun(SubSeq(s, p, Len(s)))

\* the regex '.' takes any character but a newline
NoNewline(s, from, to) == \A i \in from..to : s[i] # "\n"

\* literals of parse_wwv.decoder
SFI_EQ == << "S", "F", "I", "=" >>

A_EQ == << ",", " ", "A", "=" >>

K_EQ == << ",", " ", "K", "=" >>

\* \<(?P<Z>\d+)Z\> at position i
WwvZAt(s, i) ==
  LET d == DigitsAt(s, i + 1)
  IN [ok |-> /\ i <= Len(s) /\ s[i] = "<" /\ d # <<>>
             /\ Lit(s, i + 1 + Len(d), << "Z", ">" >>),
      Z |-> d, end |-> i + 3 + Len(d)]

\* a variant that asks for no ', ' and no conditions after the K index
WwvTailAtBare(s, p) ==
  LET d1 == DigitsAt(s, p + 5)
      p2 == p + 5 + Len(d1)
      d2 == DigitsAt(s, p2 + 4)
      p3 == p2 + 4 + Len(d2)
      d3 == DigitsAt(s, p3 + 4)
      p4 == p3 + 4 + Len(d3)
  IN [ok |-> /\ p <= Len(s) /\ s[p] \in White
             /\ Lit(s, p + 1, SFI_EQ) /\ d1 # <<>>
             /\ Lit(s, p2, A_EQ) /\ d2 # <<>>
             /\ Lit(s, p3, K_EQ) /\ d3 # <<>>,
      SFI |-> d1, A |-> d2, K |-> d3,
      conditions |-> SubSeq(s, p4 + 2, Len(s))]

\* \sSFI=(?P<SFI>\d+), A=(?P<A>\d+), K=(?P<K>\d+), (?P<conditions>.*)$
\* at position p
WwvTailAt(s, p) ==
  LET d1 == DigitsAt(s, p + 5)
      p2 == p + 5 + Len(d1)
      d2 == DigitsAt(s, p2 + 4)
      p3 == p2 + 4 + Len(d2)
      d3 == DigitsAt(s, p3 + 4)
      p4 == p3 + 4 + Len(d3)
  IN [ok |-> /\ p <= Len(s) /\ s[p] \in White
             /\ Lit(s, p + 1, SFI_EQ) /\ d1 # <<>>
             /\ Lit(s, p2, A_EQ) /\ d2 # <<>>
             /\ Lit(s, p3, K_EQ) /\ d3 # <<>>
             /\ Lit(s, p4, << ",", " " >>)
             /\ NoNewline(s, p4 + 2, Len(s)),
      SFI |-> d1, A |-> d2, K |-> d3,
      conditions |-> SubSeq(s, p4 + 2, Len(s))]

\* parse_wwv.decoder.match(line.rstrip()): the first .* takes the last
\* <nnZ> that lets the rest match, the second .* the last '\sSFI=...'
\* after it
parse_wwv(buffer, utcnow) ==
  LET line == RStrip(Decode(buffer), White)
      tails(i) == {p \in WwvZAt(line, i).end..Len(line) :
                     /\ WwvTailAt(line, p).ok
                     /\ NoNewline(line, WwvZAt(line, i).end, p - 1)}
      starts == {i \in 1..Len(line) :
                   /\ WwvZAt(line, i).ok
                   /\ NoNewline(line, 1, i - 1)
                   /\ tails(i) # {}}
  IN IF starts = {} THEN [ret |-> "None"]
     ELSE
       LET i == CHOOSE a \in starts : \A b \in starts : b <= a
           p == CHOOSE a \in tails(i) : \A b \in tails(i) : b <= a
           t == WwvTailAt(line, p)
       IN [ret |-> "fields",
           fields |-> [Z |-> IntOf(WwvZAt(line, i).Z), SFI |-> IntOf(t.SFI),
                       A |-> IntOf(t.A), K |-> IntOf(t.K),
                       conditions |-> t.conditions, time |-> utcnow]]

(***************************************************************************)
(* Lines the server may send: what telnet.expect returns as buffer         *)
(***************************************************************************)
\* the spot of the specification: 'DX de W1AW: 14025.0 K1ABC FT8 +05dB 1234Z\r\n'
SpotCanonical ==
  << "D", "X", " ", "d", "e", " ", "W", "1", "A", "W", ":", " ", "1", "4",
     "0", "2", "5", ".", "0", " ", "K", "1", "A", "B", "C", " ", "F", "T",
     "8", " ", "+", "0", "5", "d", "B", " ", "1", "2", "3", "4", "Z", "\r",
     "\n" >>

\* a skimmer spot; the DX call resolves by its part after the slash: 'DX de w1aw-#: 7010.0 Q0X/K1 CW 10 dB 1516Z\r\n'
SpotSkimmer ==
  << "D", "X", " ", "d", "e", " ", "w", "1", "a", "w", "-", "#", ":", " ",
     "7", "0", "1", "0", ".", "0", " ", "Q", "0", "X", "/", "K", "1", " ",
     "C", "W", " ", "1", "0", " ", "d", "B", " ", "1", "5", "1", "6", "Z",
     "\r", "\n" >>

\* truncated after the header: 'DX de\r\n'
SpotHeaderOnly ==
  << "D", "X", " ", "d", "e", "\r", "\n" >>

\* truncated after the frequency: 'DX de W1AW: 14025.0\r\n'
SpotNoDx ==
  << "D", "X", " ", "d", "e", " ", "W", "1", "A", "W", ":", " ", "1", "4",
     "0", "2", "5", ".", "0", "\r", "\n" >>

\* truncated after the DE call: 'DX de W1AW:\r\n'
SpotNoFreq ==
  << "D", "X", " ", "d", "e", " ", "W", "1", "A", "W", ":", "\r", "\n" >>

\* a malformed frequency: 'DX de W1AW: 14o25 K1ABC 1234Z\r\n'
SpotBadFreq ==
  << "D", "X", " ", "d", "e", " ", "W", "1", "A", "W", ":", " ", "1", "4",
     "o", "2", "5", " ", "K", "1", "A", "B", "C", " ", "1", "2", "3", "4",
     "Z", "\r", "\n" >>

\* a DE call no prefix of the table matches: 'DX de Q0X: 14025.0 K1ABC 1234Z\r\n'
SpotBadDe ==
  << "D", "X", " ", "d", "e", " ", "Q", "0", "X", ":", " ", "1", "4", "0",
     "2", "5", ".", "0", " ", "K", "1", "A", "B", "C", " ", "1", "2", "3",
     "4", "Z", "\r", "\n" >>

\* a DX call no prefix of the table matches: 'DX de W1AW: 14025.0 Q0X 1234Z\r\n'
SpotBadDx ==
  << "D", "X", " ", "d", "e", " ", "W", "1", "A", "W", ":", " ", "1", "4",
     "0", "2", "5", ".", "0", " ", "Q", "0", "X", " ", "1", "2", "3", "4",
     "Z", "\r", "\n" >>

\* the announcement of the specification: 'WWV de W0MU <18Z>: SFI=93, A=4, K=2, No Storms -> No Storms\r\n'
WwvCanonical ==
  << "W", "W", "V", " ", "d", "e", " ", "W", "0", "M", "U", " ", "<", "1",
     "8", "Z", ">", ":", " ", "S", "F", "I", "=", "9", "3", ",", " ", "A",
     "=", "4", ",", " ", "K", "=", "2", ",", " ", "N", "o", " ", "S", "t",
     "o", "r", "m", "s", " ", "-", ">", " ", "N", "o", " ", "S", "t", "o",
     "r", "m", "s", "\r", "\n" >>

\* an announcement whose K index is no number: 'WWV de W0MU <18Z>: SFI=93, A=4, K=x, none\r\n'
WwvBadK ==
  << "W", "W", "V", " ", "d", "e", " ", "W", "0", "M", "U", " ", "<", "1",
     "8", "Z", ">", ":", " ", "S", "F", "I", "=", "9", "3", ",", " ", "A",
     "=", "4", ",", " ", "K", "=", "x", ",", " ", "n", "o", "n", "e", "\r",
     "\n" >>

\* a broadcast: 'To ALL de W1AW: hello\r\n'
ToAll ==
  << "T", "o", " ", "A", "L", "L", " ", "d", "e", " ", "W", "1", "A", "W",
     ":", " ", "h", "e", "l", "l", "o", "\r", "\n" >>

\* lines that match b'DX.*\n'
SpotLines ==
  { SpotCanonical,
    SpotSkimmer,
    SpotHeaderOnly,
    SpotNoDx,
    SpotNoFreq,
    SpotBadFreq,
    SpotBadDe,
    SpotBadDx }

\* lines that match b'WWV de .*\n'
WwvLines == { WwvCanonical, WwvBadK }

\* lines that match b'To ALL.*\n'
BroadcastLines == { ToAll }

(***************************************************************************)
(* Configuration and constants of the program                              *)
(***************************************************************************)
\* cluster = ('dxc.w4mya.us', 7373), assigned inside main's loop
HardcodedCluster == "dxc.w4mya.us:7373"

\* the addresses config['servers'] may list
ConfigServers == {"dxc.w4mya.us:7373", "dxc.example.net:7300"}

\* config['call']
Call == "W6BSD"

TELNET_TIMEOUT == 37

\* for _ in range(5) in login
BannerTries == 5

\* read_stream gives up when the last activity is older than this
SilenceLimit == 120

\* time.sleep(5) after a read timeout in read_stream
TimeoutSleep == 5

\* seconds telnet.expect may take to return a line
LineWaits == {1}

SQL_SPOT == "INSERT INTO dxspot VALUES (?,?,?,?,?,?,?,?,?,?,?,?,?,?)"

SQL_WWV == "INSERT INTO wwv VALUES (?,?,?,?,?)"

\* the commands of cc_options, in the order written
CCCommands == << "SET/WWV", "SET/FT4", "SET/SKIMMER", "SET/FT8" >>

\* the commands of spider_options, in the order written
SpiderCommands == << "set/dx/filter", "set/wwv/output on", "set/station/email" >>

\* the function login bound to set_options
Commands(opt) ==
  IF opt = "cc_options" THEN CCCommands ELSE SpiderCommands

\* exceptions that are OSError or a subclass of it
OSErrors ==
  {"OSError", "ConnectionResetError", "ConnectionRefusedError", "TimeoutError",
   "FileNotFoundError"}

\* what files('bigcty').joinpath('cty.csv').read_text() may give in
\* DXCC.__init__: the text, or no such file, or no such package
CtyStates == {"ok", "FileNotFoundError", "ModuleNotFoundError"}

\* the lists without repetition over S: what random.shuffle may leave of
\* a configured list
RECURSIVE Lists(_)
Lists(S) ==
  IF S = {} THEN { <<>> }
  ELSE { <<>> } \cup
       UNION { { << x >> \o l : l \in Lists(S \ {x}) } : x \in S }

\* the shuffles of the list that names every address of ConfigServers
Shuffles == {l \in Lists(ConfigServers) : Len(l) = Cardinality(ConfigServers)}

NoItem == [stmt |-> "none"]

(***************************************************************************)
(* State                                                                   *)
(***************************************************************************)
VARIABLES
  clusters,     \* main: the server list after random.shuffle
  queue_len,    \* config.get('queue_len', 0), the maxsize of the Queue
  db_ok,        \* whether sqlite3.connect can open config['db_name']
  cty,          \* what reading bigcty's cty.csv gives: "ok" or an exception
  proc,         \* the process: "running", "crashed" (uncaught exception)
                \* or "exited" (sys.exit, or killed by a signal)
  status,       \* how the process ended: "none" while it has not
  loaded,       \* whether parse_spot.dxcc is set
  mpc,          \* where the network task stands
  cursor,       \* index in clusters of the element cycle() yields next
  tried,        \* the addresses Telnet() was called with, in order
  nopen,        \* connections opened so far
  set_options,  \* login's local: "unbound", "cc_options", "spider_options"
  biter,        \* iterations done by login's banner loop
  seen,         \* banner patterns matched during this login (0 CC, 1 AR)
  sent,         \* what login wrote to the connection, in order
  now,          \* the clock, in seconds
  current,      \* read_stream's last-activity time
  last_spot,    \* when expect last returned a line of the spot pattern in this
                \* read_stream, or when read_stream began (history)
  reads,        \* telnet.expect calls made by read_stream so far
  pending,      \* the item a blocked queue.put holds
  raised,       \* the exception that ended the last attempt, if one did
  failstage,    \* the step that raised it
  queue,        \* the Queue's items, oldest first
  nput,         \* items put on the queue so far
  wpc,          \* where DBInsert.run stands: "get", "execute", "sleep", or
                \* "ended" once an exception has left it
  request,      \* DBInsert.run's local: the item taken off the queue
  store,        \* the rows committed to the database, in commit order
  locked,       \* whether an execute has met a locked database so far
  fn,           \* the function applied on its own: "lookup", "get_band"
  arg,          \* its argument
  res           \* its result; exc is "unset" before the call

\* the configuration and what the process finds on the disk
config == << clusters, queue_len, db_ok, cty >>

net == << mpc, cursor, tried, nopen, set_options, biter, seen, sent, now,
          current, last_spot, reads, pending >>

fault == << proc, raised, failstage, status >>

pure == << fn, arg, res >>

\* login's locals and what it wrote
session == << set_options, biter, seen, sent >>

worker == << wpc, request, store, locked >>

vars == << config, net, fault, loaded, queue, nput, worker, pure >>

\* the state when main has read the configuration: nothing is opened yet,
\* the Queue is empty, DBInsert is not started, parse_spot has no dxcc
InitWith(lists, lens, dbs, ctys, calls) ==
  /\ clusters \in lists
  /\ queue_len \in lens
  /\ db_ok \in dbs
  /\ cty \in ctys
  /\ proc = "running"
  /\ status = "none"
  /\ loaded = FALSE
  /\ \E c \in calls : fn = c[1] /\ arg = c[2]
  /\ res = [exc |-> "unset"]
  /\ mpc = "startup"
  /\ cursor = 1
  /\ tried = <<>>
  /\ nopen = 0
  /\ set_options = "unbound"
  /\ biter = 0
  /\ seen = {}
  /\ sent = <<>>
  /\ now = 0
  /\ current = 0
  /\ last_spot = 0
  /\ reads = 0
  /\ pending = NoItem
  /\ raised = "none"
  /\ failstage = "none"
  /\ queue = <<>>
  /\ nput = 0
  /\ wpc = "get"
  /\ request = NoItem
  /\ store = <<>>
  /\ locked = FALSE

\* the program itself: no function is called from outside
NoCall == { << "none", <<>> >> }

Init == InitWith(Shuffles, 0..MaxQueueLen, {TRUE}, {"ok"}, NoCall)

(***************************************************************************)
(* Startup and termination                                                 *)
(***************************************************************************)
\* main before its loop: sys.exit(os.EX_IOERR) on an empty server list;
\* create_db -> connect_db: sys.exit(os.EX_IOERR) when sqlite3.connect
\* raises OperationalError; then the Queue, DBInsert started as a daemon
\* thread, and random.shuffle
Startup ==
  /\ proc = "running" /\ mpc = "startup"
  /\ IF clusters = <<>> \/ ~db_ok
     THEN proc' = "exited" /\ status' = "EX_IOERR" /\ UNCHANGED mpc
     ELSE mpc' = "connect" /\ UNCHANGED << proc, status >>
  /\ UNCHANGED << config, pure, loaded, raised, failstage, cursor, tried,
                  nopen, session, now, current, last_spot, reads, pending,
                  queue, nput,
                  worker >>

\* ^C: KeyboardInterrupt is raised in the main thread wherever it stands,
\* no "except OSError" takes it, __main__ logs it and calls
\* sys.exit(os.EX_IOERR). Nothing joins DBInsert: the daemon thread ends
\* with the process, where it stands. (SIGTERM, for which no handler is
\* installed, ends the process in the same way, with another status.)
Interrupt ==
  /\ proc = "running"
  /\ proc' = "exited"
  /\ status' = "EX_IOERR"
  /\ UNCHANGED << config, pure, loaded, raised, failstage, net, queue, nput,
                  worker >>

(***************************************************************************)
(* The network task: main's loop, login, read_stream                       *)
(***************************************************************************)
\* login is left: its locals are gone
EndLogin ==
  /\ set_options' = "unbound"
  /\ biter' = 0
  /\ seen' = {}
  /\ sent' = <<>>

\* the session is over: main's loop is back at its head, the locals of
\* login and read_stream are gone
EndSession ==
  /\ mpc' = "connect"
  /\ current' = 0
  /\ last_spot' = 0
  /\ EndLogin

\* An exception leaves login or read_stream: main's "except OSError" logs
\* it and the cycle goes on; any other exception leaves main, and the
\* "except KeyboardInterrupt" of __main__ does not take it: the process
\* ends, and the daemon thread DBInsert with it
Propagate(exc, stage) ==
  /\ raised' = exc
  /\ failstage' = stage
  /\ IF exc \in OSErrors
     THEN UNCHANGED << proc, status >> /\ EndSession
     ELSE /\ proc' = "crashed"
          /\ status' = "traceback"
          /\ UNCHANGED << mpc, current, last_spot, session >>

\* the address main opens on this turn of the cycle
Target(cluster) == HardcodedCluster

\* for cluster in cycle(clusters): ... telnet = Telnet(*cluster, timeout=60)
\* (the model follows the first `limit` turns of the cycle)
ConnectUpTo(limit) ==
  /\ proc = "running" /\ mpc = "connect"
  /\ Len(tried) < limit
  /\ tried' = Append(tried, Target(clusters[cursor]))
  /\ cursor' = (cursor % Len(clusters)) + 1
  /\ \/ /\ mpc' = "banner"
        /\ nopen' = nopen + 1
        /\ raised' = "none"
        /\ failstage' = "none"
        /\ UNCHANGED << proc, status, current, last_spot, session >>
     \/ /\ \E exc \in {"ConnectionRefusedError", "TimeoutError"} :
             Propagate(exc, "connect")
        /\ UNCHANGED nopen
  /\ UNCHANGED << config, pure, loaded,
                  now, reads, pending, queue, nput, worker >>

Connect == ConnectUpTo(MaxAttempts)

\* login leaves the banner loop: telnet.write(call), then the wait for
\* '<call> de ...'
SendCall ==
  /\ sent' = << Call >>
  /\ mpc' = "ack"

\* one telnet.expect(expect_exp, TELNET_TIMEOUT) of login's banner loop
Banner ==
  /\ proc = "running" /\ mpc = "banner"
  /\ \/ \E code \in {0, 1} :
          /\ set_options' = IF code = 0 THEN "cc_options" ELSE "spider_options"
          /\ seen' = seen \cup {code}
          /\ biter' = biter + 1
          /\ IF biter + 1 = BannerTries
             THEN SendCall
             ELSE UNCHANGED << mpc, sent >>
          /\ UNCHANGED << current, last_spot, fault >>
     \/ \E code \in {2, 3, -1} :
          /\ SendCall
          /\ UNCHANGED << set_options, seen, biter, current, last_spot, fault >>
     \/ \E exc \in {"socket.timeout", "EOFError"} :
          Propagate("OSError", "banner")
     \/ Propagate("ConnectionResetError", "banner")
  /\ UNCHANGED << config, pure, loaded,
                  cursor, tried, nopen, now, reads, pending, queue,
                  nput, worker >>

\* what telnet.expect gives where the code waits for one reply: the match,
\* (-1, None, text) on a timeout, or an exception of the transport
ReplyOutcomes == {"match", "nomatch", "EOFError", "ConnectionResetError"}

\* the exception a step of login raises on a reply that is no match:
\* match.group() on None, or the exception of telnet.expect itself
ReplyError(outcome) ==
  IF outcome = "nomatch" THEN "AttributeError" ELSE outcome

\* _, match, _ = telnet.expect(prompt, 15); match.group(); then the call
\* set_options(call, telnet, email) and the first command of that function
Ack ==
  /\ proc = "running" /\ mpc = "ack"
  /\ \E outcome \in ReplyOutcomes :
       IF outcome = "match"
       THEN IF set_options = "unbound"
            THEN Propagate("UnboundLocalError", "set_options")
            ELSE /\ sent' = Append(sent, Commands(set_options)[1])
                 /\ mpc' = "options"
                 /\ UNCHANGED << set_options, biter, seen, current,
                                 last_spot, fault >>
       ELSE Propagate(ReplyError(outcome), "ack")
  /\ UNCHANGED << config, pure, loaded,
                  cursor, tried, nopen, now, reads, pending, queue,
                  nput, worker >>

\* a variant in which login returns after the reply to the first command
OptionsFirstOnly ==
  /\ proc = "running" /\ mpc = "options"
  /\ \E outcome \in ReplyOutcomes :
       IF outcome = "match"
       THEN /\ mpc' = "stream"
            /\ current' = now
            /\ last_spot' = now
            /\ EndLogin
            /\ UNCHANGED fault
       ELSE Propagate(ReplyError(outcome), "options")
  /\ UNCHANGED << config, pure, loaded,
                  cursor, tried, nopen, now, reads, pending, queue,
                  nput, worker >>

\* cc_options / spider_options: the reply to the command written last,
\* match.group(), then the next command; after the last one login returns
\* and read_stream starts with current = time.time()
Options ==
  /\ proc = "running" /\ mpc = "options"
  /\ \E outcome \in ReplyOutcomes :
       IF outcome = "match"
       THEN /\ IF Len(sent) - 1 < Len(Commands(set_options))
               THEN /\ sent' = Append(sent, Commands(set_options)[Len(sent)])
                    /\ UNCHANGED << mpc, current, last_spot, set_options,
                                    biter, seen >>
               ELSE /\ mpc' = "stream"
                    /\ current' = now
                    /\ last_spot' = now
                    /\ EndLogin
            /\ UNCHANGED fault
       ELSE Propagate(ReplyError(outcome), "options")
  /\ UNCHANGED << config, pure, loaded,
                  cursor, tried, nopen, now, reads, pending, queue,
                  nput, worker >>

\* Queue.put(item) with block=True and no timeout: the item is appended
\* when the queue is unbounded (maxsize 0) or holds less than maxsize items;
\* otherwise the caller waits on not_full until the consumer has taken one
Full == queue_len > 0 /\ Len(queue) >= queue_len

Put(item) ==
  IF Full
  THEN mpc' = "put" /\ pending' = item /\ UNCHANGED << queue, nput >>
  ELSE /\ queue' = Append(queue, [item EXCEPT !.n = nput + 1])
       /\ nput' = nput + 1
       /\ UNCHANGED << mpc, pending >>

\* the request read_stream builds from a Record
SpotRequest(rec, buffer) ==
  [stmt |-> SQL_SPOT, params |-> rec, n |-> 0, src |-> buffer]

\* the request read_stream builds from the fields of parse_wwv
WwvRequest(fields, buffer) ==
  [stmt |-> SQL_WWV,
   params |-> [SFI |-> fields.SFI, A |-> fields.A, K |-> fields.K,
               conditions |-> fields.conditions, time |-> fields.time],
   n |-> 0, src |-> buffer]

\* parse_spot reads the clock only for DX_TIME and parse_wwv only for
\* 'time': the lines are parsed once and the results stamped
SpotParsed == [buffer \in SpotLines |-> parse_spot(buffer, 0)]

WwvParsed == [buffer \in WwvLines |-> parse_wwv(buffer, 0)]

SpotAt(buffer, utcnow) ==
  IF SpotParsed[buffer].ret = "Record"
  THEN [SpotParsed[buffer] EXCEPT !.rec.DX_TIME = utcnow]
  ELSE SpotParsed[buffer]

WwvAt(buffer, utcnow) ==
  IF WwvParsed[buffer].ret = "fields"
  THEN [WwvParsed[buffer] EXCEPT !.fields.time = utcnow]
  ELSE WwvParsed[buffer]

\* the first statement of parse_spot: parse_spot.dxcc = DXCC() when the
\* function has no such attribute yet; DXCC.__init__ reads cty.csv, and the
\* attribute is not set when that raises
CallParseSpot(buffer, utcnow) ==
  IF ~loaded /\ cty # "ok"
  THEN [ret |-> "raise", exc |-> cty, stage |-> "DXCC"]
  ELSE SpotAt(buffer, utcnow)

\* code == 0: current = time.time(); rec = parse_spot(buffer); queue.put
\* (the model follows the first `puts` calls of queue.put)
ReadSpotUpTo(puts) ==
  /\ proc = "running" /\ mpc = "stream"
  /\ reads < MaxReads
  /\ loaded' = (loaded \/ cty = "ok")
  /\ \E buffer \in SpotLines, wait \in LineWaits :
       LET r == CallParseSpot(buffer, now + wait)
       IN /\ now' = now + wait
          /\ CASE r.ret = "raise" ->
                    /\ Propagate(r.exc, r.stage)
                    /\ UNCHANGED << pending, queue, nput >>
               [] r.ret = "None" ->
                    /\ current' = now + wait
                    /\ last_spot' = now + wait
                    /\ UNCHANGED << mpc, pending, queue, nput, fault,
                                    session >>
               [] r.ret = "Record" ->
                    /\ nput < puts
                    /\ current' = now + wait
                    /\ last_spot' = now + wait
                    /\ Put(SpotRequest(r.rec, buffer))
                    /\ UNCHANGED << fault, session >>
  /\ reads' = reads + 1
  /\ UNCHANGED << config, pure, cursor, tried, nopen, worker >>

ReadSpot == ReadSpotUpTo(MaxPuts)

\* code == 1: fields = parse_wwv(buffer); queue.put
ReadWwvUpTo(puts) ==
  /\ proc = "running" /\ mpc = "stream"
  /\ reads < MaxReads
  /\ \E buffer \in WwvLines, wait \in LineWaits :
       LET r == WwvAt(buffer, now + wait)
       IN /\ now' = now + wait
          /\ IF r.ret = "None"
             THEN UNCHANGED << mpc, pending, queue, nput >>
             ELSE /\ nput < puts
                  /\ Put(WwvRequest(r.fields, buffer))
  /\ reads' = reads + 1
  /\ UNCHANGED << config, pure, loaded,
                  cursor, tried, nopen, set_options, biter, seen,
                  sent, current, last_spot, fault, worker >>

ReadWwv == ReadWwvUpTo(MaxPuts)

\* a variant of the handler below that takes the line as activity
ReadBroadcastRefreshes ==
  /\ proc = "running" /\ mpc = "stream"
  /\ reads < MaxReads
  /\ \E buffer \in BroadcastLines, wait \in LineWaits :
       now' = now + wait /\ current' = now + wait
  /\ reads' = reads + 1
  /\ UNCHANGED << config, pure, loaded,
                  mpc, cursor, tried, nopen, set_options, biter,
                  seen, sent, last_spot, pending, fault, queue, nput, worker >>

\* code == 2: the line is logged
ReadBroadcast ==
  /\ proc = "running" /\ mpc = "stream"
  /\ reads < MaxReads
  /\ \E buffer \in BroadcastLines, wait \in LineWaits : now' = now + wait
  /\ reads' = reads + 1
  /\ UNCHANGED << config, pure, loaded,
                  mpc, cursor, tried, nopen, set_options, biter,
                  seen, sent, current, last_spot, pending, fault, queue,
                  nput, worker >>

\* a variant of the handler below that raises when the server has been
\* quiet for too long
ReadTimeoutRaises ==
  /\ proc = "running" /\ mpc = "stream"
  /\ reads < MaxReads
  /\ IF current < (now + TELNET_TIMEOUT) - SilenceLimit
     THEN now' = now + TELNET_TIMEOUT /\ Propagate("OSError", "read_stream")
     ELSE /\ now' = now + TELNET_TIMEOUT + TimeoutSleep
          /\ UNCHANGED << mpc, current, last_spot, session, fault >>
  /\ reads' = reads + 1
  /\ UNCHANGED << config, pure, loaded, cursor, tried, nopen, pending, queue,
                  nput, worker >>

\* code == -1 after TELNET_TIMEOUT seconds: break when the last activity
\* is more than SilenceLimit seconds old (read_stream returns and main's
\* cycle goes on), else time.sleep(5) and the next read
ReadTimeout ==
  /\ proc = "running" /\ mpc = "stream"
  /\ reads < MaxReads
  /\ IF current < (now + TELNET_TIMEOUT) - SilenceLimit
     THEN now' = now + TELNET_TIMEOUT /\ EndSession
     ELSE /\ now' = now + TELNET_TIMEOUT + TimeoutSleep
          /\ UNCHANGED << mpc, current, last_spot, session >>
  /\ reads' = reads + 1
  /\ UNCHANGED << config, pure, loaded,
                  cursor, tried, nopen, pending, fault, queue, nput,
                  worker >>

\* telnet.expect raises: EOFError when the server closed the connection,
\* ConnectionResetError from the socket
ReadError ==
  /\ proc = "running" /\ mpc = "stream"
  /\ reads < MaxReads
  /\ \E exc \in {"EOFError", "ConnectionResetError"} :
       Propagate(exc, "read_stream")
  /\ reads' = reads + 1
  /\ UNCHANGED << config, pure, loaded,
                  cursor, tried, nopen, now, pending, queue, nput,
                  worker >>

\* the blocked queue.put goes on once the consumer has made room
PutResume ==
  /\ proc = "running" /\ mpc = "put"
  /\ ~Full
  /\ queue' = Append(queue, [pending EXCEPT !.n = nput + 1])
  /\ nput' = nput + 1
  /\ pending' = NoItem
  /\ mpc' = "stream"
  /\ UNCHANGED << config, pure, loaded,
                  cursor, tried, nopen, set_options, biter, seen,
                  sent, now, current, last_spot, reads, fault, worker >>

(***************************************************************************)
(* The PersistenceWorker: DBInsert.run                                     *)
(***************************************************************************)
\* a variant of the handler below that takes the item put last
GetNewest ==
  /\ proc = "running" /\ wpc = "get"
  /\ queue # <<>>
  /\ request' = queue[Len(queue)]
  /\ queue' = SubSeq(queue, 1, Len(queue) - 1)
  /\ wpc' = "execute"
  /\ UNCHANGED << config, pure, loaded, net, fault, nput, store, locked >>

\* request = self.queue.get(timeout=queue_timeout)
Get ==
  /\ proc = "running" /\ wpc = "get"
  /\ queue # <<>>
  /\ request' = Head(queue)
  /\ queue' = Tail(queue)
  /\ wpc' = "execute"
  /\ UNCHANGED << config, pure, loaded, net, fault, nput, store, locked >>

\* the request with the time t in the place of its timestamp
Restamp(r, t) ==
  IF r.stmt = SQL_SPOT THEN [r EXCEPT !.params.DX_TIME = t]
  ELSE [r EXCEPT !.params.time = t]

\* a variant of the handler below that stamps the row when it is written
ExecuteDoneStampsWrite ==
  /\ store' = Append(store, Restamp(request, now))
  /\ wpc' = "get"
  /\ UNCHANGED << request, locked >>

\* with conn: curs.execute(*request) went through: the row is committed
ExecuteDone ==
  /\ store' = Append(store, request)
  /\ wpc' = "get"
  /\ UNCHANGED << request, locked >>

\* a variant of the handler below that logs the error and goes back to the
\* queue without the row
ExecuteLockedGivesUp ==
  /\ wpc' = "get"
  /\ locked' = TRUE
  /\ UNCHANGED << request, store >>

\* a variant of the handler below in which the failed attempt leaves its row
ExecuteLockedLeavesRow ==
  /\ wpc' = "sleep"
  /\ locked' = TRUE
  /\ store' = Append(store, request)
  /\ UNCHANGED request

\* curs.execute(*request) raised sqlite3.OperationalError (database is
\* locked): nothing is written, the worker goes to time.sleep(1)
ExecuteLocked ==
  /\ wpc' = "sleep"
  /\ locked' = TRUE
  /\ UNCHANGED << request, store >>

\* curs.execute(*request) raised an exception that is no
\* sqlite3.OperationalError (sqlite3.DatabaseError of a malformed file,
\* OverflowError of an integer that does not fit 64 bits): no except clause
\* of run takes it, the exception leaves run and the thread DBInsert is
\* over; the request it held is not written
ExecuteRaises ==
  /\ wpc' = "ended"
  /\ UNCHANGED << request, store, locked >>

Execute ==
  /\ proc = "running" /\ wpc = "execute"
  /\ (ExecuteDone \/ ExecuteLocked \/ ExecuteRaises)
  /\ UNCHANGED << config, pure, loaded, net, fault, queue, nput >>

\* time.sleep(1) is over: the inner loop runs the same request again
Sleep ==
  /\ proc = "running" /\ wpc = "sleep"
  /\ wpc' = "execute"
  /\ UNCHANGED << config, pure, loaded,
                  net, fault, queue, nput, request, store, locked >>

\* the program: main with login and read_stream, and DBInsert.run. The
\* model follows the first MaxReads reads, fewer than the turns of
\* read_stream's for loop, whose end StreamSpec below brings within reach
Next ==
  \/ Startup
  \/ Interrupt
  \/ Connect
  \/ Banner
  \/ Ack
  \/ Options
  \/ ReadSpot
  \/ ReadWwv
  \/ ReadBroadcast
  \/ ReadTimeout
  \/ ReadError
  \/ PutResume
  \/ Get
  \/ Execute
  \/ Sleep

Spec == Init /\ [][Next]_vars

(***************************************************************************)
(* One call of read_stream from its first read to its end, with the turns  *)
(* of its for loop scaled down: the loop has MaxReads turns here where the *)
(* source has range(50021), so that its end is within reach                *)
(***************************************************************************)
\* the state in which login has just returned on the first connection
StreamInit ==
  /\ clusters \in Shuffles
  /\ queue_len \in 0..MaxQueueLen
  /\ db_ok = TRUE
  /\ cty = "ok"
  /\ proc = "running"
  /\ status = "none"
  /\ loaded = FALSE
  /\ fn = "none" /\ arg = <<>>
  /\ res = [exc |-> "unset"]
  /\ mpc = "stream"
  /\ cursor = (1 % Len(clusters)) + 1
  /\ tried = << Target(clusters[1]) >>
  /\ nopen = 1
  /\ set_options = "unbound"
  /\ biter = 0
  /\ seen = {}
  /\ sent = <<>>
  /\ now = 0
  /\ current = 0
  /\ last_spot = 0
  /\ reads = 0
  /\ pending = NoItem
  /\ raised = "none"
  /\ failstage = "none"
  /\ queue = <<>>
  /\ nput = 0
  /\ wpc = "get"
  /\ request = NoItem
  /\ store = <<>>
  /\ locked = FALSE

\* for _ in range(...) has run its turns: read_stream returns and main's
\* cycle goes on
LoopEnd ==
  /\ proc = "running" /\ mpc = "stream"
  /\ reads = MaxReads
  /\ EndSession
  /\ UNCHANGED << config, pure, loaded, cursor, tried, nopen, now, reads,
                  pending, fault, queue, nput, worker >>

\* every turn of the loop may put its line on the queue
StreamReadSpot == ReadSpotUpTo(MaxReads)

StreamReadWwv == ReadWwvUpTo(MaxReads)

\* the steps of the network task inside read_stream
StreamTask ==
  \/ StreamReadSpot
  \/ StreamReadWwv
  \/ ReadBroadcast
  \/ ReadTimeout
  \/ ReadError
  \/ LoopEnd
  \/ PutResume

StreamNext ==
  \/ Interrupt
  \/ StreamTask
  \/ Get
  \/ Execute
  \/ Sleep

StreamSpec == StreamInit /\ [][StreamNext]_vars

\* both threads are scheduled, and telnet.expect returns within its timeout
FairSpec ==
  /\ StreamSpec
  /\ WF_vars(StreamTask)
  /\ WF_vars(Get)
  /\ WF_vars(Execute)
  /\ WF_vars(Sleep)

\* curs.execute(*request) comes back without an exception
ExecuteCommits == Execute /\ wpc' = "get"

\* the same where no lock on the database is held for ever: a write that
\* is tried again and again goes through in the end
ReleaseSpec == FairSpec /\ SF_vars(ExecuteCommits)

(***************************************************************************)
(* The cycle of main and login alone, over more turns and every list the   *)
(* configuration may hold: behaviours of the program in which no session   *)
(* gets to read_stream's first read                                        *)
(***************************************************************************)
CycleInit ==
  InitWith(Lists(ConfigServers) \ { <<>> }, {0}, {TRUE}, {"ok"}, NoCall)

CycleConnect == ConnectUpTo(MaxCycle)

CycleNext ==
  \/ Startup
  \/ CycleConnect
  \/ Banner
  \/ Ack
  \/ Options

CycleSpec == CycleInit /\ [][CycleNext]_vars

(***************************************************************************)
(* The program started on any configuration and disk: the server list may  *)
(* be empty, the database may not open, cty.csv may not be readable        *)
(***************************************************************************)
StartInit ==
  InitWith(Shuffles \cup { <<>> }, 0..MaxQueueLen, BOOLEAN, CtyStates, NoCall)

StartSpec == StartInit /\ [][Next]_vars

(***************************************************************************)
(* DXCC.lookup and get_band called on their own, on any argument of a      *)
(* bounded set, in a process that does nothing else                        *)
(***************************************************************************)
\* the characters of the callsigns: letters of the table's keys in both
\* cases, a digit, and a letter no key begins with
CallChars == {"K", "W", "w", "1", "Q"}

RECURSIVE CallsOfLen(_)
CallsOfLen(n) ==
  IF n = 0 THEN { <<>> }
  ELSE { << c >> \o t : c \in CallChars, t \in CallsOfLen(n - 1) }

Callsigns == UNION { CallsOfLen(n) : n \in 0..MaxCallLen }

\* positive frequencies, in tenths of a kHz, around every edge of _bands
Frequencies ==
  { f \in { 10 * _bands[i][j] + d :
              i \in 1..Len(_bands), j \in 1..2, d \in -FreqMargin..FreqMargin }
      : f > 0 }

\* further lines for parse_spot and parse_wwv called on their own
\* a PSK31 spot: 'DX de W1AW: 14070.0 K1ABC PSK31 +10dB 1234Z\r\n'
SpotPsk ==
  << "D", "X", " ", "d", "e", " ", "W", "1", "A", "W", ":", " ", "1", "4",
     "0", "7", "0", ".", "0", " ", "K", "1", "A", "B", "C", " ", "P", "S",
     "K", "3", "1", " ", "+", "1", "0", "d", "B", " ", "1", "2", "3", "4",
     "Z", "\r", "\n" >>

\* a spot whose message names no mode: 'DX de W1AW: 14025.0 K1ABC CQ 1234Z\r\n'
SpotPlain ==
  << "D", "X", " ", "d", "e", " ", "W", "1", "A", "W", ":", " ", "1", "4",
     "0", "2", "5", ".", "0", " ", "K", "1", "A", "B", "C", " ", "C", "Q",
     " ", "1", "2", "3", "4", "Z", "\r", "\n" >>

\* a sign, a blank, then the number: 'DX de W1AW: 14025.0 K1ABC RTTY - 7 dB CQ 1234Z\r\n'
SpotRtty ==
  << "D", "X", " ", "d", "e", " ", "W", "1", "A", "W", ":", " ", "1", "4",
     "0", "2", "5", ".", "0", " ", "K", "1", "A", "B", "C", " ", "R", "T",
     "T", "Y", " ", "-", " ", "7", " ", "d", "B", " ", "C", "Q", " ", "1",
     "2", "3", "4", "Z", "\r", "\n" >>

\* a mode token and no number: 'DX de W1AW: 14025.0 K1ABC FT4 1234Z\r\n'
SpotModeOnly ==
  << "D", "X", " ", "d", "e", " ", "W", "1", "A", "W", ":", " ", "1", "4",
     "0", "2", "5", ".", "0", " ", "K", "1", "A", "B", "C", " ", "F", "T",
     "4", " ", "1", "2", "3", "4", "Z", "\r", "\n" >>

\* an announcement that ends after the K index: 'WWV de W0MU <18Z>: SFI=93, A=4, K=2\r\n'
WwvNoConditions ==
  << "W", "W", "V", " ", "d", "e", " ", "W", "0", "M", "U", " ", "<", "1",
     "8", "Z", ">", ":", " ", "S", "F", "I", "=", "9", "3", ",", " ", "A",
     "=", "4", ",", " ", "K", "=", "2", "\r", "\n" >>

\* an announcement without the <nnZ> hour: 'WWV de W0MU: SFI=93, A=4, K=2, none\r\n'
WwvNoHour ==
  << "W", "W", "V", " ", "d", "e", " ", "W", "0", "M", "U", ":", " ", "S",
     "F", "I", "=", "9", "3", ",", " ", "A", "=", "4", ",", " ", "K", "=",
     "2", ",", " ", "n", "o", "n", "e", "\r", "\n" >>


SpotInputs == SpotLines \cup {SpotPsk, SpotPlain, SpotRtty, SpotModeOnly}

WwvInputs == WwvLines \cup {WwvNoConditions, WwvNoHour}

PureInit ==
  InitWith(Shuffles, {0}, {TRUE}, {"ok"},
           ({"lookup"} \X Callsigns) \cup ({"get_band"} \X Frequencies)
             \cup ({"parse_spot"} \X SpotInputs)
             \cup ({"parse_wwv"} \X WwvInputs))

\* parse_spot.dxcc.lookup(c_code)
CallLookup ==
  /\ fn = "lookup" /\ res.exc = "unset"
  /\ res' = lookup(arg)
  /\ UNCHANGED << config, net, fault, loaded, queue, nput, worker, fn, arg >>

\* get_band(_items[1]): it returns for every number
CallGetBand ==
  /\ fn = "get_band" /\ res.exc = "unset"
  /\ res' = [exc |-> "none", band |-> get_band(arg)]
  /\ UNCHANGED << config, net, fault, loaded, queue, nput, worker, fn, arg >>

\* rec = parse_spot(buffer), with parse_spot.dxcc built; the clock reads 0
ApplyParseSpot ==
  /\ fn = "parse_spot" /\ res.exc = "unset"
  /\ res' = [exc |-> "none", out |-> parse_spot(arg, 0)]
  /\ UNCHANGED << config, net, fault, loaded, queue, nput, worker, fn, arg >>

\* fields = parse_wwv(buffer); the clock reads 0
ApplyParseWwv ==
  /\ fn = "parse_wwv" /\ res.exc = "unset"
  /\ res' = [exc |-> "none", out |-> parse_wwv(arg, 0)]
  /\ UNCHANGED << config, net, fault, loaded, queue, nput, worker, fn, arg >>

PureNext == CallLookup \/ CallGetBand \/ ApplyParseSpot \/ ApplyParseWwv

PureSpec == PureInit /\ [][PureNext]_vars

(***************************************************************************)
(* Properties                                                              *)
(***************************************************************************)
Range(s) == {s[i] : i \in 1..Len(s)}

\* the request DBInsert.run took from the queue and has not committed
InHand ==
  IF wpc \in {"execute", "sleep", "ended"} THEN << request >> ELSE <<>>

\* every request there is: the one a blocked put holds, those in the queue,
\* the one of the worker, the rows of the store
Requests ==
  Range(queue) \cup Range(InHand) \cup Range(store)
    \cup (IF pending.stmt = "none" THEN {} ELSE {pending})

TransportErrors == {"EOFError", "ConnectionResetError"}

\* C1: read_stream never waits on the queue: a put on a queue that holds
\* queue_len items returns at once (the item is dropped), so the network
\* task is never found inside queue.put holding an item.
C1_PutNeverBlocks == mpc # "put" /\ pending.stmt = "none"

\* C2: after a write attempt that met a locked database the worker keeps
\* the same request, waits the fixed delay and executes it again; nothing is
\* stored or dequeued meanwhile; it leaves the request only by committing
\* it, and takes the next item from the queue only then (an error that is
\* no lock error ends the worker, which is no retry and takes no item).
C2_RetriesSameRequest ==
  [][ /\ wpc = "execute" =>
           \/ wpc' \in {"execute", "sleep"} /\ request' = request
                /\ store' = store /\ Len(queue') >= Len(queue)
           \/ wpc' = "get" /\ request' = request
                /\ store' = Append(store, request) /\ queue' = queue
           \/ wpc' = "ended" /\ request' = request
                /\ store' = store /\ queue' = queue /\ locked' = locked
      /\ wpc = "sleep" =>
           /\ wpc' \in {"sleep", "execute"} /\ request' = request
           /\ store' = store /\ Len(queue') >= Len(queue)
      /\ wpc = "get" =>
           /\ request.stmt # "none" =>
                store # <<>> /\ store[Len(store)] = request
           /\ store' = store
           /\ request' # request =>
                wpc' = "execute" /\ queue # <<>> /\ request' = Head(queue)
    ]_vars

\* a locked attempt was met on the first request, which is now committed
\* while the next item still waits in the queue
C2_Witness ==
  /\ locked /\ wpc = "get"
  /\ Len(store) = 1 /\ store[1] = request
  /\ queue # <<>>

\* C3: whatever lock errors the worker meets, every write put on the queue
\* is exactly once in (store, worker, queue), in the order of the puts: no
\* row is lost, none is doubled, a failed attempt leaves no row; when the
\* queue is empty and the worker idle the store holds exactly one row per
\* write (a worker that an error other than a lock error has ended still
\* counts as holding its request).
C3_ExactlyOneRowPerWrite ==
  LET all == store \o InHand \o queue
  IN /\ Len(all) = nput
     /\ \A i \in 1..Len(all) : all[i].n = i
     /\ (queue = <<>> /\ InHand = <<>>) => Len(store) = nput

\* two writes with one statement template, a lock error on the way, and
\* both rows stored
C3_Witness ==
  /\ locked /\ nput = 2 /\ Len(store) = 2
  /\ store[1].stmt = store[2].stmt
  /\ queue = <<>> /\ wpc = "get"

\* C4: while no connection has opened, the addresses main attempts follow
\* the shuffled list in round-robin order, and once it has made as many
\* attempts as the list is long every configured address has been attempted.
C4_RoundRobinOverList ==
  nopen = 0 =>
    /\ \A i \in 1..Len(tried) :
         tried[i] = clusters[((i - 1) % Len(clusters)) + 1]
    /\ Len(tried) >= Len(clusters) => Range(clusters) \subseteq Range(tried)

\* C5: a transport failure of read_stream's telnet.expect (reset or EOF)
\* ends the session only: main catches it and its loop is back at the head,
\* the process runs on.
C5_StreamFailureEndsSessionOnly ==
  failstage = "read_stream" => proc = "running" /\ mpc = "connect"

\* C6: when the server does not acknowledge the call, login fails with a
\* login-rejected error of its own, and main catches it: the process runs
\* on and the loop is back at its head.
C6_LoginRejected ==
  (failstage = "ack" /\ raised \notin TransportErrors) =>
    raised = "LoginRejected" /\ proc = "running" /\ mpc = "connect"

\* C7: once login sends filter commands, a session that saw a CC-Cluster
\* banner or an AR-Cluster banner sends the AR/CC sequence, and the
\* DX-Spider sequence goes only to a server that showed neither banner.
C7_BannerSelectsCommands ==
  (mpc = "options" /\ Len(sent) > 1) =>
    /\ seen # {} => IsPrefix(Tail(sent), CCCommands)
    /\ IsPrefix(Tail(sent), SpiderCommands) => seen = {}

\* C8: a reply to a filter command that does not arrive never makes
\* cc_options or spider_options fail: the only failures of that step are
\* those of the transport.
C8_MissingReplyTolerated ==
  failstage = "options" => raised \in TransportErrors

\* C9: no exception leaves parse_spot: a line it cannot parse is skipped
\* and read_stream reads on.
C9_ParseFaultSkipped == failstage # "parse_spot"

\* the tokens of a spot line after 'DX de'
SpotTokens(buffer) ==
  LET all == splitter(RStrip(Decode(buffer), White))
  IN SubSeq(all, 3, Len(all))

\* some part of the call, split at its first slash, begins with a prefix
\* of the table
Resolves(token) ==
  \E i \in 1..Len(Split1(token, "/")) : \E p \in DXCCPrefixes :
    IsPrefix(p, Upper(Split1(token, "/")[i]))

\* spot lines with a DE call, a frequency and a DX call, the frequency a
\* number and both calls known
FullSpotLines ==
  {b \in SpotLines :
     LET t == SpotTokens(b)
     IN /\ Len(t) >= 3
        /\ IsFloat(t[2])
        /\ Resolves(Strip(t[1], {"-", "#"}))
        /\ Resolves(t[3])}

SpotFrequency == [b \in FullSpotLines |-> FloatTenths(SpotTokens(b)[2])]

\* a digit follows the literal somewhere in the line
NumberAfter(line, lit) ==
  \E p \in 1..Len(line) :
    /\ Lit(line, p, lit)
    /\ p + Len(lit) <= Len(line)
    /\ line[p + Len(lit)] \in Digits

\* WWV lines that carry a number for each of SFI, A and K
FullWwvLines ==
  {b \in WwvLines :
     /\ NumberAfter(b, SFI_EQ)
     /\ NumberAfter(b, A_EQ)
     /\ NumberAfter(b, K_EQ)}

Stamp(r) == IF r.stmt = SQL_SPOT THEN r.params.DX_TIME ELSE r.params.time

\* the requests on their way, oldest first: rows, the worker's, the queue's
Held == store \o InHand \o queue

\* C11: a request gets its timestamp from the clock when its line is
\* parsed (the value a blocked put already holds is that one), and no step
\* changes a request afterwards, whether it waits in the queue, is retried
\* or is written: the row stored carries the parse-time timestamp.
C11_StampIsParseTime ==
  [][ /\ Len(Held') >= Len(Held)
      /\ \A i \in 1..Len(Held) : Held'[i] = Held[i]
      /\ \A i \in (Len(Held) + 1)..Len(Held') :
           Stamp(Held'[i]) =
             IF pending.stmt = "none" THEN now' ELSE Stamp(pending)
      /\ (pending.stmt = "none" /\ pending'.stmt # "none") =>
           Stamp(pending') = now'
    ]_vars

\* a row was written after a lock error, later than its line was parsed
C11_Witness ==
  /\ locked
  /\ \E i \in 1..Len(store) : Stamp(store[i]) < now

\* C12: a read timeout of read_stream (telnet.expect back after
\* TELNET_TIMEOUT seconds) is followed by the short sleep and a next read on
\* the same connection while the time held in current (the last spot line,
\* or the start of the stream) is not more than SilenceLimit seconds old;
\* otherwise read_stream returns: nothing is raised, the process runs on and
\* main's loop is back at its head for the next attempt.
C12_QuietServerCleanExit ==
  [][ (mpc = "stream" /\ now' >= now + TELNET_TIMEOUT) =>
        IF (now + TELNET_TIMEOUT) - current <= SilenceLimit
        THEN /\ now' = now + TELNET_TIMEOUT + TimeoutSleep
             /\ mpc' = "stream" /\ nopen' = nopen /\ tried' = tried
             /\ UNCHANGED << current, fault >>
        ELSE /\ now' = now + TELNET_TIMEOUT
             /\ mpc' = "connect" /\ proc' = "running"
             /\ UNCHANGED << raised, failstage, status >>
    ]_vars

\* a session that opened, raised nothing and is over after a long silence
C12_Witness ==
  /\ proc = "running" /\ mpc = "connect"
  /\ nopen >= 1 /\ failstage = "none"
  /\ now > SilenceLimit

\* C13: when the server list is empty, the database cannot be opened or
\* the DXCC table cannot be loaded, the process is over once main's startup
\* is done: it has exited with a non-zero status and no connection was
\* ever attempted.
C13_StartupFatal ==
  (mpc # "startup" /\ (clusters = <<>> \/ ~db_ok \/ cty # "ok")) =>
    /\ proc = "exited" /\ status = "EX_IOERR"
    /\ tried = <<>> /\ nopen = 0

\* C14: an attempt that follows an ended one starts later than that one
\* ended: time passes between the two.
C14_PauseBetweenAttempts ==
  [][ (Len(tried) > 0 /\ Len(tried') > Len(tried)) => now' > now ]_vars

\* C15: the configuration names a finite capacity and the queue never holds
\* more items than that.
C15_QueueBounded == queue_len > 0 /\ Len(queue) <= queue_len

\* C16: when the worker takes work from the queue it takes all the items
\* that are in it, to write them in one batch per statement.
C16_DrainsAndBatches ==
  [][ (wpc = "get" /\ wpc' = "execute") => queue' = <<>> ]_vars

\* C17: when the process has ended on a termination request no write is
\* cut off: the worker holds no request that is not yet written.
C17_InFlightWriteCompletes == proc = "exited" => InHand = <<>>

\* the keys of the table that are leading substrings of the call
Matching(call) == {p \in DXCCPrefixes : IsPrefix(p, Upper(call))}

\* C18: lookup is a longest-prefix match: when two keys of the table, one
\* a proper prefix of the other, both begin the call, lookup returns the
\* record of a matching key at least as long as the longer one, never that
\* of the shorter.
C18_LongestPrefix ==
  (fn = "lookup" /\ res.exc # "unset") =>
    \A P1, P2 \in Matching(arg) :
      (P1 # P2 /\ IsPrefix(P1, P2)) =>
        /\ res.exc = "none"
        /\ res.rec.prefix \in Matching(arg)
        /\ res.rec.prefix # P1
        /\ Len(res.rec.prefix) >= Len(P2)

\* lookup was called on a callsign three keys begin, and gave the longest
C18_Witness ==
  /\ fn = "lookup" /\ res.exc = "none"
  /\ Cardinality(Matching(arg)) = 3
  /\ Len(res.rec.prefix) = 3

InBand(freq) ==
  \E i \in 1..Len(_bands) :
    10 * _bands[i][1] <= freq /\ freq <= 10 * _bands[i][2]

\* C20: get_band returns for every positive frequency, a whole number of
\* metres (the band is held in hundredths) for a frequency in a range of
\* the table, edges included, and 0 for a frequency in none.
C20_BandIsInteger ==
  (fn = "get_band" /\ res.exc # "unset") =>
    /\ res.exc = "none"
    /\ res.band % 100 = 0
    /\ InBand(arg) <=> res.band > 0

\* text of the spot lines, for what parse_spot is to make of them
W1AW == << "W", "1", "A", "W" >>

K1ABC == << "K", "1", "A", "B", "C" >>

\* C21: parse_spot on 'DX de W1AW: 14025.0 K1ABC FT8 +05dB 1234Z' returns a
\* record with DE W1AW, frequency 14025.0, DX K1ABC, mode FT8, signal +05
\* and band 20; on every line it accepts, DE is the first token after
\* 'DX de' without '-' or '#' at its ends (w1aw-# gives w1aw) and the
\* message is the tokens after the DX call up to the last one, which the
\* time token is, joined by single blanks.
C21_CanonicalSpot ==
  (fn = "parse_spot" /\ res.exc = "none") =>
    /\ arg = SpotCanonical =>
         /\ res.out.ret = "Record"
         /\ res.out.rec.DE = W1AW
         /\ res.out.rec.FREQUENCY = 140250
         /\ res.out.rec.DX = K1ABC
         /\ res.out.rec.MODE = << "F", "T", "8" >>
         /\ res.out.rec.SIGNAL = << "+", "0", "5" >>
         /\ res.out.rec.BAND = 2000
         /\ res.out.rec.MESSAGE =
              << "F", "T", "8", " ", "+", "0", "5", "d", "B" >>
    /\ arg = SpotSkimmer =>
         /\ res.out.ret = "Record"
         /\ res.out.rec.DE = << "w", "1", "a", "w" >>
         /\ res.out.rec.MESSAGE = << "C", "W", " ", "1", "0", " ", "d", "B" >>
    /\ res.out.ret = "Record" =>
         LET t == SpotTokens(arg)
         IN /\ res.out.rec.DE = Strip(t[1], {"-", "#"})
            /\ res.out.rec.DE # <<>>
            /\ Head(res.out.rec.DE) \notin {"-", "#"}
            /\ res.out.rec.DE[Len(res.out.rec.DE)] \notin {"-", "#"}
            /\ res.out.rec.DX = t[3]
            /\ res.out.rec.MESSAGE = Join(SubSeq(t, 4, Len(t) - 1))

\* the skimmer line was parsed: the marker is gone from DE and the message
\* has three tokens
C21_Witness ==
  /\ fn = "parse_spot" /\ res.exc = "none"
  /\ arg = SpotSkimmer
  /\ res.out.ret = "Record"
  /\ res.out.rec.BAND = 4000

\* the shape 'WWV de <station> <nnZ> ... SFI=n, A=n, K=n, <conditions>' with
\* the hour at position i and the blank before SFI at position p
WwvShapeAt(s, i, p) ==
  LET z == DigitsAt(s, i + 1)
      sfi == DigitsAt(s, p + 5)
      pa == p + 5 + Len(sfi)
      a == DigitsAt(s, pa + 4)
      pk == pa + 4 + Len(a)
      k == DigitsAt(s, pk + 4)
      pc == pk + 4 + Len(k)
  IN [ok |-> /\ Lit(s, 1, << "W", "W", "V", " ", "d", "e", " " >>)
             /\ Lit(s, i, << "<" >>) /\ z # <<>>
             /\ Lit(s, i + 1 + Len(z), << "Z", ">" >>)
             /\ i + Len(z) + 3 <= p
             /\ Lit(s, p, << " ", "S", "F", "I", "=" >>) /\ sfi # <<>>
             /\ Lit(s, pa, << ",", " ", "A", "=" >>) /\ a # <<>>
             /\ Lit(s, pk, << ",", " ", "K", "=" >>) /\ k # <<>>
             /\ Lit(s, pc, << ",", " " >>),
      SFI |-> sfi, A |-> a, K |-> k, conditions |-> SubSeq(s, pc + 2, Len(s))]

WwvShapes(buffer) ==
  LET s == RStrip(buffer, White)
  IN {m \in {WwvShapeAt(s, i, p) : i \in 1..Len(s), p \in 1..Len(s)} : m.ok}

\* C22: parse_wwv raises nothing; it returns fields exactly for a line of
\* the shape 'WWV de <station> <nnZ> ... SFI=n, A=n, K=n, <conditions>', SFI,
\* A and K being the numbers of the line and conditions the text after
\* 'K=n, ' (93, 4, 2 and 'No Storms -> No Storms' for the line of the
\* specification), and None for every other line.
C22_WwvShape ==
  (fn = "parse_wwv" /\ res.exc = "none") =>
    /\ res.out.ret \in {"fields", "None"}
    /\ res.out.ret = "fields" <=> WwvShapes(arg) # {}
    /\ res.out.ret = "fields" =>
         \E m \in WwvShapes(arg) :
           /\ res.out.fields.SFI = IntOf(m.SFI)
           /\ res.out.fields.A = IntOf(m.A)
           /\ res.out.fields.K = IntOf(m.K)
           /\ res.out.fields.conditions = m.conditions
    /\ arg = WwvCanonical =>
         /\ res.out.ret = "fields"
         /\ res.out.fields.SFI = 93
         /\ res.out.fields.A = 4
         /\ res.out.fields.K = 2
         /\ res.out.fields.conditions =
              << "N", "o", " ", "S", "t", "o", "r", "m", "s", " ", "-", ">",
                 " ", "N", "o", " ", "S", "t", "o", "r", "m", "s" >>

\* parse_wwv was called on the line of the specification and gave fields
C22_Witness ==
  /\ fn = "parse_wwv" /\ res.exc = "none"
  /\ arg = WwvCanonical
  /\ res.out.ret = "fields"
  /\ res.out.fields.Z = 18

\* the mode tokens a message may begin with: CW, FT4, FT8, RTTY, or PSK and
\* the digits after it
ModeTokenOf(msg) ==
  IF IsPrefix(<< "P", "S", "K" >>, msg)
  THEN << "P", "S", "K" >> \o DigitRun(SubSeq(msg, 4, Len(msg)))
  ELSE IF \E i \in 1..Len(MsgModes) : IsPrefix(MsgModes[i], msg)
  THEN MsgModes[CHOOSE i \in 1..Len(MsgModes) : IsPrefix(MsgModes[i], msg)]
  ELSE <<>>

\* the signed number after the mode token and its blanks; empty when there
\* is none
SignalOf(msg) ==
  LET after == SubSeq(msg, Len(ModeTokenOf(msg)) + 1, Len(msg))
      sp == LStrip(after, White)
      sign == IF sp # <<>> /\ Head(sp) \in {"+", "-"} THEN << Head(sp) >>
              ELSE <<>>
      rest == LStrip(SubSeq(sp, Len(sign) + 1, Len(sp)), {" "})
      pad == SubSeq(sp, Len(sign) + 1, Len(sp) - Len(rest))
  IN IF ModeTokenOf(msg) # <<>> /\ after # <<>> /\ Head(after) \in White
        /\ Len(pad) <= 1 /\ DigitRun(rest) # <<>>
     THEN sign \o pad \o DigitRun(rest)
     ELSE <<>>

\* C23: a spot that parse_spot accepts has its mode set exactly when its
\* message begins with CW, FT4, FT8, RTTY or PSK and optional digits, then
\* a signed number; the mode is that token and the signal that number, and
\* for every other message both are None.
C23_ModeAndSignal ==
  (fn = "parse_spot" /\ res.exc = "none" /\ res.out.ret = "Record") =>
    LET msg == res.out.rec.MESSAGE
    IN IF SignalOf(msg) # <<>>
       THEN /\ res.out.rec.MODE = ModeTokenOf(msg)
            /\ res.out.rec.SIGNAL = SignalOf(msg)
       ELSE /\ res.out.rec.MODE = PyNone
            /\ res.out.rec.SIGNAL = PyNone

\* C24: within a connection the writes come in one order and none is left
\* out: the call is written when the banner wait ends and at no other
\* time, the first command of the dialect when the acknowledgement of the
\* call has come, each further command when the reply to the one before has
\* come, and read_stream starts only from the end of login, with the call
\* and every command of the dialect written.
C24_NegotiationOrder ==
  [][ /\ sent' # sent =>
           \/ sent' = <<>>
           \/ /\ mpc = "banner" /\ mpc' = "ack"
              /\ sent = <<>> /\ sent' = << Call >>
           \/ /\ mpc = "ack" /\ mpc' = "options"
              /\ sent = << Call >>
              /\ sent' = << Call, Commands(set_options)[1] >>
           \/ /\ mpc = "options" /\ mpc' = "options"
              /\ Len(sent) <= Len(Commands(set_options))
              /\ sent' = Append(sent, Commands(set_options)[Len(sent)])
      /\ (mpc' = "ack" /\ mpc # "ack") => (mpc = "banner" /\ sent' = << Call >>)
      /\ (mpc' = "options" /\ mpc # "options") => mpc = "ack"
      /\ (mpc' = "stream" /\ mpc \notin {"stream", "put"}) =>
           /\ mpc = "options"
           /\ set_options # "unbound"
           /\ sent = << Call >> \o Commands(set_options)
           /\ raised' = raised
    ]_vars

\* the last command of cc_options is written and its reply awaited
C24_Witness ==
  /\ mpc = "options"
  /\ set_options = "cc_options"
  /\ sent = << Call >> \o CCCommands

\* the network task is inside read_stream, at a read or inside queue.put
InReadStream == proc = "running" /\ mpc \in {"stream", "put"}

\* C25: read_stream ends whatever lines and timeouts it gets: with both
\* threads scheduled and every telnet.expect returning within its timeout,
\* a task that is inside read_stream leaves it (or the process is over),
\* and the for loop never takes more turns than it has.
C25_ReadStreamTerminates ==
  /\ [](reads <= MaxReads)
  /\ InReadStream ~> ~InReadStream

\* C26: login never calls set_options without a dialect chosen: when the
\* prompt came with no banner before it, or the banner wait timed out, the
\* attempt does not end the process on the call of set_options.
C26_DialectAlwaysSelected ==
  ~(failstage = "set_options" /\ raised = "UnboundLocalError"
      /\ proc = "crashed")

\* C27: while the process runs the thread DBInsert has not ended: no error
\* of a write makes run return or raise.
C27_WorkerNeverEnds == proc = "running" => wpc # "ended"

\* C28: when no lock is held for ever and both threads are scheduled, every
\* write put on the queue is committed in the end, as long as the process
\* runs: the k-th put leads to a store of k rows.
C28_AcceptedEventuallyPersisted ==
  \A k \in 1..MaxReads :
    (nput >= k) ~> (Len(store) >= k \/ proc # "running")

\* C29: rows are committed in the order of the puts, one request in flight
\* at a time: when the worker takes a request, every request put before it
\* is already a row, also when those had to be tried again; each commit
\* appends the request in flight, which is the next in put order; what
\* waits in the queue was put after the request in flight.
C29_PersistedInPutOrder ==
  [][ /\ (wpc = "get" /\ wpc' = "execute") =>
           /\ request' = Head(queue)
           /\ request'.n = Len(store) + 1
           /\ \A i \in 1..Len(store) : store[i].n = i
      /\ store' # store =>
           /\ wpc = "execute"
           /\ store' = Append(store, request)
           /\ request.n = Len(store) + 1
      /\ \A i \in 1..Len(queue') :
           /\ queue'[i].n > Len(store')
           /\ wpc' \in {"execute", "sleep"} => queue'[i].n > request'.n
           /\ i > 1 => queue'[i].n > queue'[i - 1].n
    ]_vars

\* the second write is tried again after a lock error while the third
\* waits, the first being a row
C29_Witness ==
  /\ wpc = "sleep"
  /\ request.n = 2
  /\ Len(store) = 1 /\ store[1].n = 1
  /\ Len(queue) = 1 /\ queue[1].n = 3

\* C30: inside read_stream the time held in current is the time of the last
\* line of the spot pattern (parsed or not), or the start of the stream when
\* there was none: WWV lines, broadcasts and timeouts leave it alone. A read
\* timeout ends the session, with nothing raised, exactly when more than
\* SilenceLimit seconds have passed since that time, whatever other lines
\* came in between; otherwise the loop sleeps and reads again.
C30_OnlySpotLinesRefresh ==
  [][ /\ (proc' = "running" /\ mpc' \in {"stream", "put"}) =>
           current' = last_spot'
      /\ (mpc = "stream" /\ mpc' \in {"stream", "put"}
            /\ current' # current) =>
           /\ current' = now'
           /\ pending'.stmt # "none" => pending'.stmt = SQL_SPOT
           /\ nput' # nput => queue'[Len(queue')].stmt = SQL_SPOT
      /\ (mpc = "stream" /\ nput' # nput
            /\ queue'[Len(queue')].stmt = SQL_WWV) =>
           current' = current
      /\ (mpc = "stream" /\ now' >= now + TELNET_TIMEOUT) =>
           IF (now + TELNET_TIMEOUT) - last_spot > SilenceLimit
           THEN /\ mpc' = "connect" /\ proc' = "running"
                /\ UNCHANGED << raised, failstage, status >>
           ELSE /\ mpc' = "stream"
                /\ now' = now + TELNET_TIMEOUT + TimeoutSleep
                /\ current' = current
    ]_vars

\* a WWV line came after the last spot line and a timeout after both: the
\* last-activity time is still that of the spot line
C30_Witness ==
  /\ proc = "running" /\ mpc = "stream"
  /\ current > 0
  /\ now >= current + TELNET_TIMEOUT
  /\ \E r \in Requests : r.stmt = SQL_WWV /\ r.params.time > current

====
